---- MODULE Spec2Model ----
(***************************************************************************)
(* UserStore (src/src/common/user-store.ts): the persisted user settings   *)
(* of the application, the kube-config context diff (newContexts against   *)
(* seenContexts), and the reactions set up once the store has loaded.      *)
(*                                                                         *)
(* JavaScript runs every synchronous stretch of code to completion, so one *)
(* action is one such stretch: a method call together with the MobX        *)
(* reactions it triggers, or the continuation of an await.                 *)
(***************************************************************************)
EXTENDS Integers, Sequences, FiniteSets, TLC

VARIABLES
  pc,                  \* where load()/handleOnLoad() stand
  app,                 \* whether electron's `app` is defined (main process)
  appVersion,          \* getAppVersion(): the running build's version
  lastSeenAppVersion,  \* user-store.ts:51
  kubeConfigPath,      \* user-store.ts:52
  seenContexts,        \* user-store.ts:53
  newContexts,         \* user-store.ts:54
  preferences,         \* user-store.ts:56-65
  pending,             \* readFile calls of refreshNewContexts not yet settled
  emitted,             \* appEventBus.emit calls made by the last step
  loginItemSettings,   \* app.setLoginItemSettings calls made by the last step
  lastOp,              \* the operation the last step ran
  lastRead,            \* the file content the last step was given: the kube-config
                       \* of a refreshNewContexts, the backing file of a load
  lastData,            \* the argument of the last fromStore (recorded runs only)
  markCalls,           \* markNewContextsAsSeen calls made in a row (at most 2 counted)
  issued,              \* the paths readFile was called with by the last step
  seenAtEmit,          \* lastSeenAppVersion as the subscribers of the last step's
                       \* "app" event found it when emit called them
  themeResets,         \* resetTheme calls parked at `await this.whenLoaded`, each
                       \* with where load() stood when it was made
  pathChanges,         \* kubeConfigPath changes made from outside (counted runs only)
  helmCall,            \* the last readHelmConfig call: what it met, what it returned
  hiddenArgs           \* the arguments of the last setHiddenTableColumns call

vars == <<pc, app, appVersion, lastSeenAppVersion, kubeConfigPath, seenContexts,
          newContexts, preferences, pending, emitted, loginItemSettings, lastOp,
          lastRead, lastData, markCalls, issued, seenAtEmit, themeResets,
          pathChanges, helmCall, hiddenArgs>>

\* what the operations of the store other than resetTheme leave alone
aside == <<themeResets, pathChanges, helmCall, hiddenArgs>>

----------------------------------------------------------------------------
(* Bounds *)

\* most readFile calls in flight at once
MaxPending == 2
\* most contexts in one kube-config file
MaxLen == 2
\* largest major, minor or patch number of a version
MaxVerNum == 2

----------------------------------------------------------------------------
(* Values *)

\* kubeConfigDefaultPath (kube-helpers), user-store.ts:10
kubeConfigDefaultPath == "~/.kube/config"

\* UserStore.defaultTheme
defaultTheme == "lens-dark"

Paths == {kubeConfigDefaultPath, "/alt/config"}
CtxNames == {"a", "b"}
Themes == {defaultTheme, "lens-light"}
TableIds == {"pods", "nodes"}
ColumnNames == {"age", "name"}

\* A version string "major.minor.patch" is the sequence of its three numbers;
\* the empty string is the empty sequence.
VerNums == 0..MaxVerNum
SemVers == VerNums \X VerNums \X VerNums
EmptyString == <<>>

\* An optional member of a JSON object: absent is {}, present with v is {v}.
Opt(S) == {{}} \cup {{v} : v \in S}
Has(o) == o # {}
Val(o) == CHOOSE v \in o : TRUE

\* A context of a kube-config: ctx.cluster is "" when it references no cluster.
Context == [name : CtxNames, cluster : {"", "x"}]

RECURSIVE SeqsUpTo(_, _)
SeqsUpTo(S, n) ==
  IF n = 0 THEN {<<>>}
  ELSE LET shorter == SeqsUpTo(S, n - 1)
       IN  shorter \cup {Append(s, x) : s \in {t \in shorter : Len(t) = n - 1}, x \in S}

\* What `await readFile(path, "utf8")` followed by loadConfig can meet:
\*   error      readFile rejects
\*   empty      the file is the empty string
\*   malformed  loadConfig throws
\*   ok         loadConfig(...).getContexts() is `contexts`
Contents ==
  {[kind |-> k, contexts |-> <<>>] : k \in {"error", "empty", "malformed"}}
    \cup {[kind |-> "ok", contexts |-> cs] : cs \in SeqsUpTo(Context, MaxLen)}

NoRead == [kind |-> "none", contexts |-> <<>>]

\* Partial<UserPreferences> / Partial<UserStoreModel> as read from JSON
PartialPreferences(telemetry, themes, autostart, columns) ==
  [allowTelemetry : telemetry, colorTheme : themes, openAtLogin : autostart,
   hiddenTableColumns : columns]

NoPreferences ==
  [allowTelemetry |-> {}, colorTheme |-> {}, openAtLogin |-> {},
   hiddenTableColumns |-> {}]

StoreData(versions, paths, seens, prefs) ==
  [lastSeenAppVersion : versions, kubeConfigPath : paths,
   seenContexts : seens, preferences : prefs]

EmptyData ==
  [lastSeenAppVersion |-> {}, kubeConfigPath |-> {}, seenContexts |-> {},
   preferences |-> NoPreferences]

NoData == [EmptyData EXCEPT !.kubeConfigPath = {"(not recorded)"}]

----------------------------------------------------------------------------
(* semver.gt, as the semver package computes it for plain x.y.z versions *)

compareIdentifiers(a, b) == IF a = b THEN 0 ELSE IF a < b THEN -1 ELSE 1

\* SemVer.compareMain: major || minor || patch
compareMain(v, w) ==
  IF compareIdentifiers(v[1], w[1]) # 0 THEN compareIdentifiers(v[1], w[1])
  ELSE IF compareIdentifiers(v[2], w[2]) # 0 THEN compareIdentifiers(v[2], w[2])
  ELSE compareIdentifiers(v[3], w[3])

semverGt(v, w) == compareMain(v, w) > 0

\* the arguments of semver.gt swapped
isNewVersionSwapped(running, lastSeen) == semverGt(lastSeen, running)

\* get isNewVersion(): semver.gt(getAppVersion(), this.lastSeenAppVersion)
isNewVersion(running, lastSeen) == semverGt(running, lastSeen)

----------------------------------------------------------------------------
(* refreshNewContexts: the part after `await readFile` *)

\* .forEach(ctx => this.newContexts.add(ctx.name))
RECURSIVE addNames(_, _)
addNames(ctxs, set) ==
  IF ctxs = <<>> THEN set
  ELSE addNames(Tail(ctxs), set \cup {Head(ctxs).name})

\* .filter(ctx => ctx.cluster).filter(ctx => !this.seenContexts.has(ctx.name))
filterContexts(ctxs, seen) ==
  LET hasCluster(ctx) == ctx.cluster # ""
      notSeen(ctx) == ctx.name \notin seen
  IN  SelectSeq(SelectSeq(ctxs, hasCluster), notSeen)

\* a catch that only meets the rejection of readFile
readThrowsOnRejectOnly(kubeConfig) == kubeConfig.kind = "error"

\* readFile rejects, or loadConfig throws: the catch block runs
readThrows(kubeConfig) == kubeConfig.kind \in {"error", "malformed"}

\* newContexts when the try block is left. `if (kubeConfig)` skips the empty
\* string; clear() runs before loadConfig can throw.
newContextsAfterRead(kubeConfig, newCtx, seen) ==
  CASE kubeConfig.kind = "error" -> newCtx
    [] kubeConfig.kind = "empty" -> newCtx
    [] kubeConfig.kind = "malformed" -> {}
    [] OTHER -> addNames(filterContexts(kubeConfig.contexts, seen), {})

----------------------------------------------------------------------------
(* markNewContextsAsSeen *)

\* a replace() given only the new contexts
markSeenDropsOld(seen, newCtx) == newCtx

\* this.seenContexts.replace([...seenContexts, ...newContexts])
markSeen(seen, newCtx) == seen \cup newCtx

\* the clear() left out
clearNewForgotten(newCtx) == newCtx

\* this.newContexts.clear()
clearNew(newCtx) == {}

----------------------------------------------------------------------------
(* fromStore, field by field *)

\* the assignment without its guard: an absent version arrives as nothing
fromStoreVersionUnguarded(cur, opt) == IF Has(opt) THEN Val(opt) ELSE EmptyString

\* if (lastSeenAppVersion) { this.lastSeenAppVersion = lastSeenAppVersion }
fromStoreVersion(cur, opt) ==
  IF Has(opt) /\ Val(opt) # EmptyString THEN Val(opt) ELSE cur

\* the guard testing only that the field is there
fromStorePathIfDefined(cur, opt) == IF Has(opt) THEN Val(opt) ELSE cur

\* if (kubeConfigPath) { this.kubeConfigPath = kubeConfigPath }
fromStorePath(cur, opt) ==
  IF Has(opt) /\ Val(opt) # "" THEN Val(opt) ELSE cur

\* const { seenContexts = [] } = data; this.seenContexts.replace(seenContexts)
fromStoreSeen(cur, opt) == IF Has(opt) THEN Val(opt) ELSE {}

\* this.preferences = preferences: the bag replaced wholesale
replacePreferences(cur, partial) ==
  [allowTelemetry |-> IF Has(partial.allowTelemetry)
                      THEN Val(partial.allowTelemetry) ELSE TRUE,
   colorTheme     |-> IF Has(partial.colorTheme)
                      THEN Val(partial.colorTheme) ELSE defaultTheme,
   openAtLogin    |-> IF Has(partial.openAtLogin)
                      THEN Val(partial.openAtLogin) ELSE FALSE,
   hiddenTableColumns |-> IF Has(partial.hiddenTableColumns)
                          THEN Val(partial.hiddenTableColumns)
                          ELSE [tableId \in TableIds |-> {}]]

\* Object.assign(this.preferences, preferences)
assignPreferences(cur, partial) ==
  [allowTelemetry |-> IF Has(partial.allowTelemetry)
                      THEN Val(partial.allowTelemetry) ELSE cur.allowTelemetry,
   colorTheme     |-> IF Has(partial.colorTheme)
                      THEN Val(partial.colorTheme) ELSE cur.colorTheme,
   openAtLogin    |-> IF Has(partial.openAtLogin)
                      THEN Val(partial.openAtLogin) ELSE cur.openAtLogin,
   hiddenTableColumns |-> IF Has(partial.hiddenTableColumns)
                          THEN Val(partial.hiddenTableColumns)
                          ELSE cur.hiddenTableColumns]

----------------------------------------------------------------------------
(* Reactions registered by handleOnLoad after `await this.whenLoaded` *)

\* the reactions registered by the constructor, with no await in front
reactionsRegisteredAtConstruction == TRUE

reactionsRegistered == pc = "ready"

\* refreshNewContexts up to its await: readFile(this.kubeConfigPath) is
\* issued. `stale` marks the reads a later read has been issued after.
startRead(pend, path) ==
  Append([i \in 1..Len(pend) |-> [pend[i] EXCEPT !.stale = TRUE]],
         [path |-> path, stale |-> FALSE])

\* a reaction that runs on every assignment, changed or not
pathReadsOnEveryWrite(registered, old, new) ==
  IF registered THEN <<new>> ELSE <<>>

\* reaction(() => this.kubeConfigPath, this.refreshNewContexts): the paths
\* readFile is called with when kubeConfigPath goes from old to new
pathReads(registered, old, new) ==
  IF registered /\ old # new THEN <<new>> ELSE <<>>

\* the reads in flight after that reaction
pathReaction(registered, old, new, pend) ==
  IF pathReads(registered, old, new) # <<>> THEN startRead(pend, new) ELSE pend

\* an emit on every write of the flag, changed or not
telemetryOnEveryWrite(registered, hasApp, old, new) ==
  IF registered /\ hasApp
  THEN <<[name |-> "telemetry", action |-> IF new THEN "enabled" ELSE "disabled"]>>
  ELSE <<>>

\* if (app) reaction(() => this.preferences.allowTelemetry, allowed => emit(...))
telemetryReaction(registered, hasApp, old, new) ==
  IF registered /\ hasApp /\ old # new
  THEN <<[name |-> "telemetry", action |-> IF new THEN "enabled" ELSE "disabled"]>>
  ELSE <<>>

\* app.setLoginItemSettings({ openAtLogin, openAsHidden: true, args: ["--hidden"] })
setLoginItemSettings(openAtLogin) ==
  [openAtLogin |-> openAtLogin, openAsHidden |-> TRUE, args |-> <<"--hidden">>]

\* a call on every write of the flag, changed or not
autostartOnEveryWrite(registered, hasApp, old, new) ==
  IF registered /\ hasApp THEN <<setLoginItemSettings(new)>> ELSE <<>>

\* if (app) reaction(() => this.preferences.openAtLogin, ..., { fireImmediately: true }):
\* the calls made when the flag goes from old to new
autostartReaction(registered, hasApp, old, new) ==
  IF registered /\ hasApp /\ old # new THEN <<setLoginItemSettings(new)>> ELSE <<>>

\* dropping the i-th element of a sequence
RemoveAt(s, i) == [j \in 1..(Len(s) - 1) |-> IF j < i THEN s[j] ELSE s[j + 1]]

----------------------------------------------------------------------------
(* The state after `new UserStore()`: field initialisers, handleOnLoad      *)
(* parked at `await this.whenLoaded`.                                       *)

\* hiddenTableColumns: {}. A table id that is no key of the object reads as
\* undefined, the empty option
defaultPreferences ==
  [allowTelemetry |-> TRUE, colorTheme |-> defaultTheme, openAtLogin |-> FALSE,
   hiddenTableColumns |-> [tableId \in TableIds |-> {}]]

\* no "app" event was emitted
NothingSeen == <<>>

\* no setHiddenTableColumns call was made
NoHiddenArgs == [tableId |-> "", names |-> <<>>]

\* no readHelmConfig call was made
NoHelmCall ==
  [met |-> [read |-> "none", parse |-> "none",
            parsed |-> [type |-> "undefined", apiVersion |-> {}, repositories |-> {}]],
   returned |-> [outcome |-> "none",
                 value |-> [type |-> "undefined", apiVersion |-> {}, repositories |-> {}]]]

InitStore(versions) ==
  /\ pc = "constructed"
  /\ app \in BOOLEAN
  /\ appVersion \in versions
  /\ lastSeenAppVersion = <<0, 0, 0>>
  /\ kubeConfigPath = kubeConfigDefaultPath
  /\ seenContexts = {}
  /\ newContexts = {}
  /\ preferences = defaultPreferences
  /\ pending = <<>>
  /\ emitted = <<>>
  /\ loginItemSettings = <<>>
  /\ lastOp = "constructor"
  /\ lastRead = NoRead
  /\ lastData = NoData
  /\ markCalls = 0
  /\ issued = <<>>
  /\ seenAtEmit = NothingSeen
  /\ themeResets = <<>>
  /\ pathChanges = 0
  /\ helmCall = NoHelmCall
  /\ hiddenArgs = NoHiddenArgs

----------------------------------------------------------------------------
(* fromStore(data): the assignments and the reactions they trigger. At      *)
(* load time no reaction is registered yet.                                 *)

fromStoreBody(data) ==
  /\ lastSeenAppVersion' = fromStoreVersion(lastSeenAppVersion, data.lastSeenAppVersion)
  /\ kubeConfigPath' = fromStorePath(kubeConfigPath, data.kubeConfigPath)
  /\ seenContexts' = fromStoreSeen(seenContexts, data.seenContexts)
  /\ preferences' = assignPreferences(preferences, data.preferences)
  /\ issued' = pathReads(reactionsRegistered, kubeConfigPath, kubeConfigPath')
  /\ pending' = pathReaction(reactionsRegistered, kubeConfigPath, kubeConfigPath', pending)
  /\ Len(pending') <= MaxPending
  /\ seenAtEmit' = NothingSeen
  /\ emitted' = telemetryReaction(reactionsRegistered, app,
                                  preferences.allowTelemetry, preferences'.allowTelemetry)
  /\ loginItemSettings' = autostartReaction(reactionsRegistered, app,
                                            preferences.openAtLogin, preferences'.openAtLogin)
  /\ UNCHANGED <<app, appVersion, newContexts>>

----------------------------------------------------------------------------
(* load() *)

\* load() is called: fileNameMigration() is started and awaited
load ==
  /\ pc = "constructed"
  /\ pc' = "migrating"
  /\ lastOp' = "load"
  /\ lastRead' = NoRead
  /\ lastData' = NoData
  /\ markCalls' = 0
  /\ emitted' = <<>>
  /\ loginItemSettings' = <<>>
  /\ issued' = <<>>
  /\ seenAtEmit' = NothingSeen
  /\ UNCHANGED <<app, appVersion, lastSeenAppVersion, kubeConfigPath, seenContexts,
                 newContexts, preferences, pending>>
  /\ UNCHANGED aside

\* fileNameMigration() rejects: `await` rethrows and load() rejects
fileNameMigrationFailed ==
  /\ pc = "migrating"
  /\ pc' = "rejected"
  /\ lastOp' = "load: fileNameMigration failed"
  /\ lastRead' = NoRead
  /\ lastData' = NoData
  /\ markCalls' = 0
  /\ emitted' = <<>>
  /\ loginItemSettings' = <<>>
  /\ issued' = <<>>
  /\ seenAtEmit' = NothingSeen
  /\ UNCHANGED <<app, appVersion, lastSeenAppVersion, kubeConfigPath, seenContexts,
                 newContexts, preferences, pending>>
  /\ UNCHANGED aside

\* fileNameMigration() resolves: the legacy file was moved, or there was none
fileNameMigrationDone ==
  /\ pc = "migrating"
  /\ pc' = "migrated"
  /\ lastOp' = "load: fileNameMigration done"
  /\ lastRead' = NoRead
  /\ lastData' = NoData
  /\ markCalls' = 0
  /\ emitted' = <<>>
  /\ loginItemSettings' = <<>>
  /\ issued' = <<>>
  /\ seenAtEmit' = NothingSeen
  /\ UNCHANGED <<app, appVersion, lastSeenAppVersion, kubeConfigPath, seenContexts,
                 newContexts, preferences, pending>>
  /\ UNCHANGED aside

\* `return super.load()` with no await in front of it
superLoadNotAwaiting(p) == p \in {"migrating", "migrated"}

\* `await fileNameMigration()`: load() goes on to super.load() once the
\* relocation has resolved
superLoadMayStart(p) == p = "migrated"

\* load() resumes and `return super.load()` runs: BaseStore.load opens the
\* backing file, hands its content to fromStore and resolves whenLoaded. An
\* absent or malformed file is the empty object.
superLoad(file, data, rec) ==
  /\ superLoadMayStart(pc)
  /\ file \in {"absent", "malformed"} => data = EmptyData
  /\ pc' = "loaded"
  /\ fromStoreBody(data)
  /\ lastOp' = "load: super.load"
  /\ lastRead' = [kind |-> file, contexts |-> <<>>]
  /\ lastData' = IF rec THEN data ELSE NoData
  /\ markCalls' = 0
  /\ UNCHANGED aside

\* handleOnLoad resumes after `await this.whenLoaded`
handleOnLoad ==
  /\ pc = "loaded"
  /\ pc' = "ready"
  /\ issued' = <<kubeConfigPath>>
  /\ pending' = startRead(pending, kubeConfigPath)
  /\ seenAtEmit' = NothingSeen
  /\ UNCHANGED aside
  /\ loginItemSettings' = IF app THEN <<setLoginItemSettings(preferences.openAtLogin)>>
                          ELSE <<>>
  /\ lastOp' = "handleOnLoad"
  /\ lastRead' = NoRead
  /\ lastData' = NoData
  /\ markCalls' = 0
  /\ emitted' = <<>>
  /\ UNCHANGED <<app, appVersion, lastSeenAppVersion, kubeConfigPath, seenContexts,
                 newContexts, preferences>>

----------------------------------------------------------------------------
(* Operations on the loaded store. Callers use the store once load() has    *)
(* settled; handleOnLoad, parked on whenLoaded before load() was called,    *)
(* resumes ahead of the callers that await load(), so the operations start  *)
(* at pc = "ready".                                                         *)

\* fromStore(data) called again by the base store (a model synced in)
fromStore(data, rec) ==
  /\ pc = "ready"
  /\ fromStoreBody(data)
  /\ lastOp' = "fromStore"
  /\ lastRead' = NoRead
  /\ lastData' = IF rec THEN data ELSE NoData
  /\ markCalls' = 0
  /\ UNCHANGED pc
  /\ UNCHANGED aside

\* the continuation of refreshNewContexts: the i-th pending readFile settles
\* with kubeConfig; on a throw, resetKubeConfigPath() and its reaction
refreshNewContexts(i, kubeConfig) ==
  /\ pc = "ready"
  /\ i \in 1..Len(pending)
  /\ newContexts' = newContextsAfterRead(kubeConfig, newContexts, seenContexts)
  /\ kubeConfigPath' = IF readThrows(kubeConfig) THEN kubeConfigDefaultPath
                       ELSE kubeConfigPath
  /\ issued' = pathReads(reactionsRegistered, kubeConfigPath, kubeConfigPath')
  /\ pending' = pathReaction(reactionsRegistered, kubeConfigPath, kubeConfigPath',
                             RemoveAt(pending, i))
  /\ seenAtEmit' = NothingSeen
  /\ UNCHANGED aside
  /\ lastOp' = IF pending[i].stale THEN "refreshNewContexts (superseded)"
               ELSE "refreshNewContexts"
  /\ lastRead' = kubeConfig
  /\ lastData' = NoData
  /\ markCalls' = 0
  /\ emitted' = <<>>
  /\ loginItemSettings' = <<>>
  /\ UNCHANGED <<pc, app, appVersion, lastSeenAppVersion, seenContexts, preferences>>

markNewContextsAsSeen ==
  /\ pc = "ready"
  /\ seenContexts' = markSeen(seenContexts, newContexts)
  /\ newContexts' = clearNew(newContexts)
  /\ lastOp' = "markNewContextsAsSeen"
  /\ lastRead' = NoRead
  /\ lastData' = NoData
  /\ markCalls' = IF markCalls < 2 THEN markCalls + 1 ELSE 2
  /\ emitted' = <<>>
  /\ loginItemSettings' = <<>>
  /\ issued' = <<>>
  /\ seenAtEmit' = NothingSeen
  /\ UNCHANGED <<pc, app, appVersion, lastSeenAppVersion, kubeConfigPath, preferences,
                 pending>>
  /\ UNCHANGED aside

resetKubeConfigPath ==
  /\ pc = "ready"
  /\ kubeConfigPath' = kubeConfigDefaultPath
  /\ issued' = pathReads(reactionsRegistered, kubeConfigPath, kubeConfigPath')
  /\ pending' = pathReaction(reactionsRegistered, kubeConfigPath, kubeConfigPath', pending)
  /\ Len(pending') <= MaxPending
  /\ seenAtEmit' = NothingSeen
  /\ UNCHANGED aside
  /\ lastOp' = "resetKubeConfigPath"
  /\ lastRead' = NoRead
  /\ lastData' = NoData
  /\ markCalls' = 0
  /\ emitted' = <<>>
  /\ loginItemSettings' = <<>>
  /\ UNCHANGED <<pc, app, appVersion, lastSeenAppVersion, seenContexts, newContexts,
                 preferences>>

\* the assignment made ahead of the emit
seenAtEmitAfterAssignment(lastSeen, running) == running

\* appEventBus.emit(...) runs its subscribers on the spot, ahead of the
\* assignment on the next line: they find the stored version as it was
seenAtEmitOfSave(lastSeen, running) == lastSeen

saveLastSeenAppVersion ==
  /\ pc = "ready"
  /\ emitted' = <<[name |-> "app", action |-> "whats-new-seen"]>>
  /\ seenAtEmit' = seenAtEmitOfSave(lastSeenAppVersion, appVersion)
  /\ issued' = <<>>
  /\ UNCHANGED aside
  /\ loginItemSettings' = <<>>
  /\ lastSeenAppVersion' = appVersion
  /\ lastOp' = "saveLastSeenAppVersion"
  /\ lastRead' = NoRead
  /\ lastData' = NoData
  /\ markCalls' = 0
  /\ UNCHANGED <<pc, app, appVersion, kubeConfigPath, seenContexts, newContexts,
                 preferences, pending>>

----------------------------------------------------------------------------
(* Specifications *)

\* the running version of the main specification
RunningVersion == <<1, 0, 1>>

\* what the backing file or a synced model can hold in the main specification
SyncData ==
  StoreData({{}},
            Opt(Paths \cup {""}),
            Opt(SUBSET CtxNames),
            PartialPreferences(Opt(BOOLEAN), {{}}, {{}}, {{}}))

Init == InitStore({RunningVersion})

Next ==
  \/ load
  \/ fileNameMigrationFailed
  \/ fileNameMigrationDone
  \/ \E file \in {"absent", "malformed", "ok"}, data \in SyncData :
       superLoad(file, data, FALSE)
  \/ handleOnLoad
  \/ \E data \in SyncData : fromStore(data, FALSE)
  \/ \E i \in 1..MaxPending + 1, kubeConfig \in Contents : refreshNewContexts(i, kubeConfig)
  \/ markNewContextsAsSeen
  \/ resetKubeConfigPath
  \/ saveLastSeenAppVersion

Spec == Init /\ [][Next]_vars

\* The versions specification: every running version and every stored
\* lastSeenAppVersion within the bound, the other stored fields absent.
VersionData ==
  StoreData(Opt(SemVers \cup {EmptyString}), {{}}, {{}}, {NoPreferences})

InitVersion == InitStore(SemVers)

NextVersion ==
  \/ load
  \/ fileNameMigrationFailed
  \/ fileNameMigrationDone
  \/ \E file \in {"absent", "malformed", "ok"}, data \in VersionData :
       superLoad(file, data, FALSE)
  \/ handleOnLoad
  \/ \E data \in VersionData : fromStore(data, FALSE)
  \/ saveLastSeenAppVersion

SpecVersion == InitVersion /\ [][NextVersion]_vars

\* The hydration specification: the main process, fromStore over every
\* combination of present and absent fields (each preference present with the
\* value that is not its default), its argument recorded in lastData.
HydrateData ==
  StoreData(Opt({<<1, 1, 0>>}),
            Opt(Paths),
            Opt({{}, {"a"}}),
            PartialPreferences(Opt({FALSE}), Opt({"lens-light"}), Opt({TRUE}), {{}}))

HydrateContents ==
  {[kind |-> "ok", contexts |-> <<[name |-> "a", cluster |-> "x"]>>]}

InitHydrate == InitStore({RunningVersion}) /\ app

NextHydrate ==
  \/ load
  \/ fileNameMigrationDone
  \/ \E file \in {"absent", "malformed", "ok"}, data \in HydrateData :
       superLoad(file, data, TRUE)
  \/ handleOnLoad
  \/ \E data \in HydrateData : fromStore(data, TRUE)
  \/ \E i \in 1..MaxPending + 1, kubeConfig \in HydrateContents :
       refreshNewContexts(i, kubeConfig)

SpecHydrate == InitHydrate /\ [][NextHydrate]_vars

----------------------------------------------------------------------------
(* The side-effects specification: the stored path, allowTelemetry and       *)
(* openAtLogin each absent or present with either value, reads that fail or  *)
(* find no context.                                                          *)

EffectsData ==
  StoreData({{}},
            Opt(Paths),
            {{}},
            PartialPreferences(Opt(BOOLEAN), {{}}, Opt(BOOLEAN), {{}}))

EffectsContents ==
  {[kind |-> "error", contexts |-> <<>>], [kind |-> "ok", contexts |-> <<>>]}

InitEffects == InitStore({RunningVersion})

NextEffects ==
  \/ load
  \/ fileNameMigrationDone
  \/ \E file \in {"absent", "malformed", "ok"}, data \in EffectsData :
       superLoad(file, data, FALSE)
  \/ handleOnLoad
  \/ \E data \in EffectsData : fromStore(data, FALSE)
  \/ \E i \in 1..MaxPending + 1, kubeConfig \in EffectsContents :
       refreshNewContexts(i, kubeConfig)
  \/ resetKubeConfigPath

SpecEffects == InitEffects /\ [][NextEffects]_vars

----------------------------------------------------------------------------
(* The failing-reads specification: every readFile rejects or every          *)
(* loadConfig throws, the default path included; kubeConfigPath is changed   *)
(* from outside MaxPathChanges times. A readFile promise settles sooner or   *)
(* later, which is the fairness condition.                                   *)

\* changes of kubeConfigPath made from outside in one run
MaxPathChanges == 1

FailingContents ==
  {[kind |-> "error", contexts |-> <<>>], [kind |-> "malformed", contexts |-> <<>>]}

FailingData == StoreData({{}}, Opt(Paths), Opt(SUBSET CtxNames), {NoPreferences})

\* a model synced in that changes kubeConfigPath
changePath(data) ==
  /\ pc = "ready"
  /\ pathChanges < MaxPathChanges
  /\ fromStoreBody(data)
  /\ kubeConfigPath' # kubeConfigPath
  /\ pathChanges' = pathChanges + 1
  /\ lastOp' = "fromStore"
  /\ lastRead' = NoRead
  /\ lastData' = NoData
  /\ markCalls' = 0
  /\ UNCHANGED <<pc, themeResets, helmCall, hiddenArgs>>

readSettles ==
  \E i \in 1..MaxPending + 1, kubeConfig \in FailingContents :
    refreshNewContexts(i, kubeConfig)

InitFailing == InitStore({RunningVersion})

NextFailing ==
  \/ load
  \/ fileNameMigrationDone
  \/ \E file \in {"absent", "malformed", "ok"}, data \in FailingData :
       superLoad(file, data, FALSE)
  \/ handleOnLoad
  \/ \E data \in FailingData : changePath(data)
  \/ readSettles

SpecFailing == InitFailing /\ [][NextFailing]_vars /\ WF_vars(readSettles)

----------------------------------------------------------------------------
(* resetTheme                                                                *)

\* most resetTheme calls parked at once
MaxResets == 1

\* resetTheme() is called, at any time from construction on, and parks at
\* `await this.whenLoaded`
resetTheme ==
  /\ Len(themeResets) < MaxResets
  /\ themeResets' = Append(themeResets, [calledAt |-> pc])
  /\ lastOp' = "resetTheme"
  /\ lastRead' = NoRead
  /\ lastData' = NoData
  /\ markCalls' = 0
  /\ emitted' = <<>>
  /\ loginItemSettings' = <<>>
  /\ issued' = <<>>
  /\ seenAtEmit' = NothingSeen
  /\ UNCHANGED <<pc, app, appVersion, lastSeenAppVersion, kubeConfigPath, seenContexts,
                 newContexts, preferences, pending, pathChanges, helmCall, hiddenArgs>>

\* the assignment made by the call itself, with no await in front
resetThemeNotAwaiting(p) == TRUE

\* `await this.whenLoaded`: the continuation runs once the barrier has
\* resolved, behind that of handleOnLoad, which has awaited it since the
\* constructor
resetThemeMayResume(p) == p = "ready"

\* resetTheme resumes: this.preferences.colorTheme = UserStore.defaultTheme,
\* and its promise resolves
resetThemeResumes ==
  /\ themeResets # <<>>
  /\ resetThemeMayResume(pc)
  /\ themeResets' = Tail(themeResets)
  /\ preferences' = [preferences EXCEPT !.colorTheme = defaultTheme]
  /\ lastOp' = IF Head(themeResets).calledAt = "ready"
               THEN "resetTheme: settled"
               ELSE "resetTheme: settled (called before whenLoaded)"
  /\ lastRead' = NoRead
  /\ lastData' = NoData
  /\ markCalls' = 0
  /\ emitted' = <<>>
  /\ loginItemSettings' = <<>>
  /\ issued' = <<>>
  /\ seenAtEmit' = NothingSeen
  /\ UNCHANGED <<pc, app, appVersion, lastSeenAppVersion, kubeConfigPath, seenContexts,
                 newContexts, pending, pathChanges, helmCall, hiddenArgs>>

\* The theme specification: the stored colorTheme absent or present with
\* either theme, resetTheme called at any time.
ThemeData ==
  StoreData({{}}, {{}}, {{}}, PartialPreferences({{}}, Opt(Themes), {{}}, {{}}))

InitTheme == InitStore({RunningVersion})

NextTheme ==
  \/ load
  \/ fileNameMigrationFailed
  \/ fileNameMigrationDone
  \/ \E file \in {"absent", "malformed", "ok"}, data \in ThemeData :
       superLoad(file, data, TRUE)
  \/ handleOnLoad
  \/ \E data \in ThemeData : fromStore(data, TRUE)
  \/ resetTheme
  \/ resetThemeResumes

SpecTheme == InitTheme /\ [][NextTheme]_vars

----------------------------------------------------------------------------
(* setHiddenTableColumns, getHiddenTableColumns                              *)

\* most names in one setHiddenTableColumns call
MaxCols == 2

\* `names` as the call iterates it: an array as it stands (a name can come
\* twice), a Set in insertion order
NameLists == SeqsUpTo(ColumnNames, MaxCols)

\* Array.from(names)
arrayFrom(names) == [i \in 1..Len(names) |-> names[i]]

\* the list stored under every table id
setColumnsOfEveryTable(columns, tableId, names) ==
  [id \in DOMAIN columns |-> {arrayFrom(names)}]

\* this.preferences.hiddenTableColumns[tableId] = Array.from(names)
setColumns(columns, tableId, names) ==
  [columns EXCEPT ![tableId] = {arrayFrom(names)}]

\* new Set(this.preferences.hiddenTableColumns[tableId]): the elements of the
\* list, none for undefined
getHiddenTableColumns(columns, tableId) ==
  IF Has(columns[tableId])
  THEN {Val(columns[tableId])[i] : i \in 1..Len(Val(columns[tableId]))}
  ELSE {}

setHiddenTableColumns(tableId, names) ==
  /\ pc = "ready"
  /\ preferences' = [preferences EXCEPT
                       !.hiddenTableColumns = setColumns(@, tableId, names)]
  /\ hiddenArgs' = [tableId |-> tableId, names |-> names]
  /\ lastOp' = "setHiddenTableColumns"
  /\ lastRead' = NoRead
  /\ lastData' = NoData
  /\ markCalls' = 0
  /\ emitted' = <<>>
  /\ loginItemSettings' = <<>>
  /\ issued' = <<>>
  /\ seenAtEmit' = NothingSeen
  /\ UNCHANGED <<pc, app, appVersion, lastSeenAppVersion, kubeConfigPath, seenContexts,
                 newContexts, pending, themeResets, pathChanges, helmCall>>

\* The columns specification: setHiddenTableColumns over every table id and
\* list of names, the stored colorTheme absent or present.
ColumnsData ==
  StoreData({{}}, {{}}, {{}}, PartialPreferences({{}}, Opt({"lens-light"}), {{}}, {{}}))

InitColumns == InitStore({RunningVersion})

NextColumns ==
  \/ load
  \/ fileNameMigrationDone
  \/ \E file \in {"absent", "malformed", "ok"}, data \in ColumnsData :
       superLoad(file, data, FALSE)
  \/ handleOnLoad
  \/ \E data \in ColumnsData : fromStore(data, FALSE)
  \/ \E tableId \in TableIds, names \in NameLists : setHiddenTableColumns(tableId, names)

SpecColumns == InitColumns /\ [][NextColumns]_vars

----------------------------------------------------------------------------
(* toJSON, and fromStore given what toJSON returned                          *)

\* Array.from(set): the names of the set, each once (in insertion order,
\* which nothing below depends on)
RECURSIVE arrayOfSet(_)
arrayOfSet(set) ==
  IF set = {} THEN <<>>
  ELSE LET name == CHOOSE n \in set : TRUE
       IN  <<name>> \o arrayOfSet(set \ {name})

\* a JSON array of names as the stored data hold it: replace() takes its entries
entriesOf(array) == {array[i] : i \in 1..Len(array)}

\* seenContexts left out of the object
toJSONWithoutSeenContexts ==
  [kubeConfigPath |-> {kubeConfigPath},
   lastSeenAppVersion |-> {lastSeenAppVersion},
   seenContexts |-> {},
   preferences |-> [allowTelemetry |-> {preferences.allowTelemetry},
                    colorTheme |-> {preferences.colorTheme},
                    openAtLogin |-> {preferences.openAtLogin},
                    hiddenTableColumns |-> {preferences.hiddenTableColumns}]]

\* toJSON(): the four members, each present; toJS copies the preferences
toJSON ==
  [kubeConfigPath |-> {kubeConfigPath},
   lastSeenAppVersion |-> {lastSeenAppVersion},
   seenContexts |-> {entriesOf(arrayOfSet(seenContexts))},
   preferences |-> [allowTelemetry |-> {preferences.allowTelemetry},
                    colorTheme |-> {preferences.colorTheme},
                    openAtLogin |-> {preferences.openAtLogin},
                    hiddenTableColumns |-> {preferences.hiddenTableColumns}]]

\* fromStore(toJSON())
fromStoreOfToJSON == fromStore(toJSON, TRUE)

\* The persistence specification: a store hydrated from any combination of
\* stored fields, its contexts read, marked as seen, its version saved, a
\* column list set, and fromStore(toJSON()) in every state it reaches.
PersistData ==
  StoreData(Opt({<<1, 1, 0>>}),
            Opt(Paths),
            Opt({{"b"}}),
            PartialPreferences(Opt({FALSE}), Opt({"lens-light"}), Opt({TRUE}), {{}}))

InitPersist == InitStore({RunningVersion})

NextPersist ==
  \/ load
  \/ fileNameMigrationDone
  \/ \E file \in {"absent", "malformed", "ok"}, data \in PersistData :
       superLoad(file, data, FALSE)
  \/ handleOnLoad
  \/ fromStoreOfToJSON
  \/ \E i \in 1..MaxPending + 1, kubeConfig \in HydrateContents :
       refreshNewContexts(i, kubeConfig)
  \/ markNewContextsAsSeen
  \/ saveLastSeenAppVersion
  \/ \E names \in {<<"name", "age">>} : setHiddenTableColumns("pods", names)

SpecPersist == InitPersist /\ [][NextPersist]_vars

----------------------------------------------------------------------------
(* readHelmConfig (read-helm-config.ts)                                      *)

\* most entries under `repositories` in one helm configuration file
MaxRepos == 2

\* interface HelmRepo: name and url (the optional members left out)
HelmRepo == [name : {"stable", "bitnami"}, url : {"https://a", "https://b"}]

\* the value under the key `repositories`: a list of entries, or a scalar
RepositoriesValues ==
  {[isList |-> FALSE, items |-> <<>>]}
    \cup {[isList |-> TRUE, items |-> s] : s \in SeqsUpTo(HelmRepo, MaxRepos)}

\* What yaml.load can return. `type` tells the kind of JavaScript value; the
\* two members are those of an object (absent on every other kind).
YamlValue(type) == [type |-> type, apiVersion |-> {}, repositories |-> {}]

YamlValues ==
  {YamlValue(type) : type \in {"undefined", "null", "string", "number", "boolean", "array"}}
    \cup [type : {"object"}, apiVersion : Opt({"", "v1"}),
          repositories : Opt(RepositoriesValues)]

\* What one call meets: readFile rejects or resolves, yaml.load throws or
\* returns `parsed`.
HelmFiles ==
  {[read |-> "rejects", parse |-> "none", parsed |-> YamlValue("undefined")],
   [read |-> "resolves", parse |-> "throws", parsed |-> YamlValue("undefined")]}
    \cup [read : {"resolves"}, parse : {"returns"}, parsed : YamlValues]

\* const emptyConfiguration: HelmRepoConfig = { repositories: [] }
emptyConfiguration ==
  [type |-> "object", apiVersion |-> {},
   repositories |-> {[isList |-> TRUE, items |-> <<>>]}]

\* the typeof operator: null and arrays are "object"
typeOf(value) ==
  IF value.type \in {"null", "array", "object"} THEN "object" ELSE value.type

\* JavaScript truthiness of the values typeof calls "object"
truthy(value) == value.type \notin {"undefined", "null"}

\* const resultIsConfig = !!(typeof parsedConfig === "object" && parsedConfig)
resultIsConfig(parsedConfig) == typeOf(parsedConfig) = "object" /\ truthy(parsedConfig)

\* the promise readHelmConfig(configPath) returns: both throwing calls sit in
\* a try block, so it always resolves
readHelmConfigResult(file) ==
  [outcome |-> "resolved",
   value |-> IF file.read = "rejects" THEN emptyConfiguration
             ELSE IF file.parse = "throws" THEN emptyConfiguration
             ELSE IF ~resultIsConfig(file.parsed) THEN emptyConfiguration
             ELSE file.parsed]

readHelmConfig(file) ==
  /\ helmCall' = [met |-> file, returned |-> readHelmConfigResult(file)]
  /\ lastOp' = "readHelmConfig"
  /\ lastRead' = NoRead
  /\ lastData' = NoData
  /\ markCalls' = 0
  /\ emitted' = <<>>
  /\ loginItemSettings' = <<>>
  /\ issued' = <<>>
  /\ seenAtEmit' = NothingSeen
  /\ UNCHANGED <<pc, app, appVersion, lastSeenAppVersion, kubeConfigPath, seenContexts,
                 newContexts, preferences, pending, themeResets, pathChanges,
                 hiddenArgs>>

\* The helm specification: readHelmConfig over every file of HelmFiles.
InitHelm == InitStore({RunningVersion})

NextHelm == \E file \in HelmFiles : readHelmConfig(file)

SpecHelm == InitHelm /\ [][NextHelm]_vars

TypeOK ==
  /\ pc \in {"constructed", "migrating", "migrated", "rejected", "loaded", "ready"}
  /\ kubeConfigPath \in Paths
  /\ seenContexts \subseteq CtxNames
  /\ newContexts \subseteq CtxNames
  /\ Len(pending) <= MaxPending
  /\ Len(issued) <= 1
  /\ Len(themeResets) <= MaxResets
  /\ pathChanges \in 0..MaxPathChanges
  /\ preferences.colorTheme \in Themes

----------------------------------------------------------------------------
(* Claims *)

RefreshOps == {"refreshNewContexts", "refreshNewContexts (superseded)"}

\* C1: a kube-config read that settles after a newer read was issued never
\* modifies newContexts, so newContexts only ever holds the result of the most
\* recently issued read.
C1_StaleReadDiscarded ==
  [][lastOp' = "refreshNewContexts (superseded)" => newContexts' = newContexts]_vars

\* C2: newContexts and seenContexts are disjoint in every reachable state
\* (before the first recompute newContexts is empty, so "once the first
\* recompute has completed" adds no case).
C2_NewSeenDisjoint == newContexts \cap seenContexts = {}

\* the names of the contexts of a file content that reference a cluster
ClusterNames(kubeConfig) ==
  {kubeConfig.contexts[i].name :
     i \in {j \in 1..Len(kubeConfig.contexts) : kubeConfig.contexts[j].cluster # ""}}

\* C3: when refreshNewContexts completes on a file that was read (empty
\* content and content without contexts included), newContexts is exactly the
\* names of the contexts with a cluster reference, minus seenContexts.
C3_ExactRecompute ==
  (lastOp \in RefreshOps /\ lastRead.kind # "error")
    => newContexts = ClusterNames(lastRead) \ seenContexts

\* C4: markNewContextsAsSeen, in one step, makes seenContexts the union of the
\* previous seenContexts and the previous newContexts and empties newContexts.
C4_MarkUnionsAndClears ==
  [][lastOp' = "markNewContextsAsSeen"
       => /\ seenContexts' = seenContexts \cup newContexts
          /\ newContexts' = {}]_vars

C4_Witness ==
  /\ lastOp = "markNewContextsAsSeen"
  /\ markCalls = 1
  /\ seenContexts = CtxNames
  /\ newContexts = {}

\* C5: a second markNewContextsAsSeen made right after a first one changes
\* neither seenContexts nor newContexts.
C5_MarkIdempotent ==
  [][markCalls' = 2 => (seenContexts' = seenContexts /\ newContexts' = newContexts)]_vars

C5_Witness ==
  /\ lastOp = "markNewContextsAsSeen"
  /\ markCalls = 2
  /\ seenContexts # {}

\* the telemetry events among the events a step emitted
TelemetryEvents(events) ==
  LET isTelemetry(e) == e.name = "telemetry" IN SelectSeq(events, isTelemetry)

\* a step publishes one matching event if allowTelemetry changes, none otherwise
TelemetryOncePerTransition ==
  IF preferences'.allowTelemetry # preferences.allowTelemetry
  THEN TelemetryEvents(emitted') =
         <<[name |-> "telemetry",
            action |-> IF preferences'.allowTelemetry THEN "enabled" ELSE "disabled"]>>
  ELSE TelemetryEvents(emitted') = <<>>

\* C6 as claimed, for a process that has the electron app handle: every
\* transition of preferences.allowTelemetry, the one made by the hydration of
\* load() included, publishes exactly one matching telemetry event, and a
\* write of the current value publishes none.
C6_EveryTransitionPublishes == [][app => TelemetryOncePerTransition]_vars

\* C6 amended: where the app handle is defined, every step taken once
\* handleOnLoad has registered the reaction publishes exactly one matching
\* telemetry event if it changes preferences.allowTelemetry and none if it
\* does not; every other step (the hydration of load() among them, and every
\* step of a process without the app handle) publishes no telemetry event.
C6_PublishedOncePerTransitionAfterLoad ==
  [][IF app /\ pc = "ready"
     THEN TelemetryOncePerTransition
     ELSE TelemetryEvents(emitted') = <<>>]_vars

C6_Witness ==
  /\ lastOp = "fromStore"
  /\ app
  /\ ~preferences.allowTelemetry
  /\ emitted = <<[name |-> "telemetry", action |-> "disabled"]>>

\* C7: kubeConfigPath is never the empty string; after resetKubeConfigPath,
\* and after a refreshNewContexts whose read or parse failed, it is the
\* default path.
C7_PathNeverEmpty ==
  /\ kubeConfigPath # ""
  /\ lastOp = "resetKubeConfigPath" => kubeConfigPath = kubeConfigDefaultPath
  /\ (lastOp \in RefreshOps /\ readThrows(lastRead))
       => kubeConfigPath = kubeConfigDefaultPath

\* a failed read has reset the path, and the reset has issued the re-read of
\* the default path
C7_Witness ==
  /\ lastOp \in RefreshOps
  /\ lastRead.kind = "error"
  /\ kubeConfigPath = kubeConfigDefaultPath
  /\ pending = <<[path |-> kubeConfigDefaultPath, stale |-> FALSE]>>

\* the documented defaults of the model
HoldsDefaults ==
  /\ kubeConfigPath = kubeConfigDefaultPath
  /\ lastSeenAppVersion = <<0, 0, 0>>
  /\ seenContexts = {}
  /\ preferences.allowTelemetry = TRUE

\* load() has completed on a backing file that is absent or malformed
LoadedWithoutFile ==
  lastOp = "load: super.load" /\ lastRead.kind \in {"absent", "malformed"}

\* C8 as claimed: load() never raises, the failure of the file relocation
\* included, and on an absent or malformed backing file the model holds the
\* defaults, isNewVersion being true for every running version above 0.0.0.
C8_LoadNeverRaises ==
  /\ pc # "rejected"
  /\ LoadedWithoutFile
       => /\ HoldsDefaults
          /\ appVersion # <<0, 0, 0>> => isNewVersion(appVersion, lastSeenAppVersion)

\* C8 amended: when the file relocation succeeds and the backing file is
\* absent or malformed, load() completes (the load barrier resolved) and the
\* model holds the defaults, isNewVersion being true for every running version
\* above 0.0.0; when the file relocation fails, load() rejects with that
\* failure, the base load never runs and the model still holds the defaults.
C8_LoadDefaultsUnlessRelocationFails ==
  /\ LoadedWithoutFile
       => /\ pc = "loaded"
          /\ HoldsDefaults
          /\ appVersion # <<0, 0, 0>> => isNewVersion(appVersion, lastSeenAppVersion)
  /\ pc = "rejected"
       => /\ lastOp = "load: fileNameMigration failed"
          /\ HoldsDefaults

C8_Witness ==
  /\ LoadedWithoutFile
  /\ lastRead.kind = "malformed"
  /\ pc = "loaded"
  /\ appVersion = <<0, 0, 1>>

\* a version as one number: major first, then minor, then patch
Rank(v) == (v[1] * (MaxVerNum + 1) + v[2]) * (MaxVerNum + 1) + v[3]

\* C9: isNewVersion is true exactly when the running version is strictly
\* greater than lastSeenAppVersion by major, then minor, then patch, false when
\* it is equal or lesser, and false right after saveLastSeenAppVersion.
C9_IsNewVersionIffGreater ==
  /\ isNewVersion(appVersion, lastSeenAppVersion)
       <=> Rank(appVersion) > Rank(lastSeenAppVersion)
  /\ lastOp = "saveLastSeenAppVersion" => ~isNewVersion(appVersion, lastSeenAppVersion)

C9_Witness ==
  /\ lastOp = "saveLastSeenAppVersion"
  /\ appVersion = <<1, 0, 2>>
  /\ lastSeenAppVersion = appVersion

FromStoreOps == {"fromStore", "load: super.load"}

\* what a fromStore step leaves alone whatever the claim's reading
FromStoreKeepsUnspecified ==
  /\ ~Has(lastData'.lastSeenAppVersion) => lastSeenAppVersion' = lastSeenAppVersion
  /\ ~Has(lastData'.kubeConfigPath) => kubeConfigPath' = kubeConfigPath
  /\ ~Has(lastData'.preferences.allowTelemetry)
       => preferences'.allowTelemetry = preferences.allowTelemetry
  /\ ~Has(lastData'.preferences.colorTheme)
       => preferences'.colorTheme = preferences.colorTheme
  /\ ~Has(lastData'.preferences.openAtLogin)
       => preferences'.openAtLogin = preferences.openAtLogin

\* C10 as claimed: fromStore(partial) leaves every top-level field the partial
\* lacks (lastSeenAppVersion, kubeConfigPath, seenContexts) and every
\* preference key the partial lacks at its current value.
C10_UnspecifiedFieldsKept ==
  [][lastOp' \in FromStoreOps
       => /\ FromStoreKeepsUnspecified
          /\ ~Has(lastData'.seenContexts) => seenContexts' = seenContexts]_vars

\* C10 amended: fromStore(partial) leaves lastSeenAppVersion and
\* kubeConfigPath at their current values when the partial lacks them, and
\* overwrites only the preference keys the partial holds; seenContexts is
\* always replaced, by the partial's list when it has one and by the empty set
\* when it has none; newContexts is not touched.
C10_UnspecifiedKeptSeenReplaced ==
  [][lastOp' \in FromStoreOps
       => /\ FromStoreKeepsUnspecified
          /\ seenContexts' = IF Has(lastData'.seenContexts)
                             THEN Val(lastData'.seenContexts) ELSE {}
          /\ newContexts' = newContexts]_vars

\* a fromStore without seenContexts and colorTheme has run on a store that
\* holds a theme other than the default and has new contexts
C10_Witness ==
  /\ lastOp = "fromStore"
  /\ ~Has(lastData.seenContexts)
  /\ ~Has(lastData.preferences.colorTheme)
  /\ Has(lastData.preferences.allowTelemetry)
  /\ preferences.colorTheme # defaultTheme
  /\ newContexts # {}

\* the value is an object holding a list under `repositories`
IsHelmRepoConfig(value) ==
  /\ value.type = "object"
  /\ Has(value.repositories)
  /\ Val(value.repositories).isList

\* the call met a failing read, a failing parse or a parsed value that is no
\* object
HelmCallFailed(file) ==
  \/ file.read = "rejects"
  \/ file.parse = "throws"
  \/ file.parsed.type # "object"

\* C11: readHelmConfig never raises and always returns an object with a
\* repositories sequence; on a failing read, a failing parse or parsed content
\* that is no configuration object the result is exactly {repositories: []}.
C11_AlwaysRepositories ==
  lastOp = "readHelmConfig"
    => /\ helmCall.returned.outcome = "resolved"
       /\ IsHelmRepoConfig(helmCall.returned.value)
       /\ HelmCallFailed(helmCall.met) => helmCall.returned.value = emptyConfiguration

\* the one call the autostart capability is given for the flag value
AutostartCall(openAtLogin) ==
  <<[openAtLogin |-> openAtLogin, openAsHidden |-> TRUE, args |-> <<"--hidden">>]>>

FailedRefresh == lastOp' \in RefreshOps /\ lastRead'.kind \in {"error", "malformed"}

\* C13, as claimed: every failed read or parse resets kubeConfigPath to the
\* default path and initiates a new read of the default path, the failing path
\* being the default path or not.
C13_FailureAlwaysRereadsDefault ==
  [][FailedRefresh
       => /\ kubeConfigPath' = kubeConfigDefaultPath
          /\ issued' = <<kubeConfigDefaultPath>>]_vars

\* C13, amended: every failed read or parse resets kubeConfigPath to the
\* default path; a new read of the default path is initiated exactly when
\* kubeConfigPath was not the default path already, and none otherwise.
C13_FailureRereadsDefaultOnChange ==
  [][FailedRefresh
       => /\ kubeConfigPath' = kubeConfigDefaultPath
          /\ issued' = IF kubeConfigPath # kubeConfigDefaultPath
                       THEN <<kubeConfigDefaultPath>> ELSE <<>>
          /\ issued' # <<>> => pending'[Len(pending')] =
                                 [path |-> kubeConfigDefaultPath, stale |-> FALSE]]_vars

\* a parse failure at another path that restarted the read at the default path
C13_Witness ==
  /\ lastOp = "refreshNewContexts"
  /\ lastRead.kind = "malformed"
  /\ kubeConfigPath = kubeConfigDefaultPath
  /\ issued = <<kubeConfigDefaultPath>>

\* what is left to do: the reads in flight, and the reset still to make
ReadRank ==
  2 * Len(pending) + (IF kubeConfigPath # kubeConfigDefaultPath THEN 1 ELSE 0)

Quiescent == pending = <<>> /\ kubeConfigPath = kubeConfigDefaultPath

\* C14: when every read fails, each settling read brings the store strictly
\* closer to rest (it issues at most the one re-read of the path reset), and
\* once kubeConfigPath has been changed the store comes to rest for good with
\* no read in flight and kubeConfigPath equal to the default path.
C14_SelfHealingTerminates ==
  /\ [][lastOp' \in RefreshOps => ReadRank' < ReadRank]_vars
  /\ (pathChanges = MaxPathChanges) ~> [](Quiescent /\ issued = <<>>)

\* at rest after a change of path: the reads of both paths have failed
C14_Witness ==
  /\ pathChanges = 1
  /\ Quiescent
  /\ lastOp \in RefreshOps
  /\ lastRead.kind = "error"
  /\ issued = <<>>

\* C15: until the load barrier has resolved no kube-config read is initiated
\* or in flight and no telemetry event or autostart call is made; the step
\* that follows its resolution initiates exactly one read, of the hydrated
\* kubeConfigPath; every later step initiates exactly one read of the new path
\* if it changes kubeConfigPath and none otherwise.
C15_ReadsOnlyAfterLoadOncePerChange ==
  [][/\ pc \notin {"loaded", "ready"}
          => /\ issued' = <<>>
             /\ pending' = <<>>
             /\ TelemetryEvents(emitted') = <<>>
             /\ loginItemSettings' = <<>>
     /\ pc = "loaded"
          => /\ kubeConfigPath' = kubeConfigPath
             /\ issued' = <<kubeConfigPath>>
             /\ pending' = <<[path |-> kubeConfigPath, stale |-> FALSE]>>
     /\ pc = "ready"
          => issued' = IF kubeConfigPath' # kubeConfigPath
                       THEN <<kubeConfigPath'>> ELSE <<>>]_vars

\* the one read made at startup, of a path that came from the backing file
C15_Witness ==
  /\ lastOp = "handleOnLoad"
  /\ kubeConfigPath = "/alt/config"
  /\ issued = <<"/alt/config">>
  /\ pending = <<[path |-> "/alt/config", stale |-> FALSE]>>

ThemeSettledOps ==
  {"resetTheme: settled", "resetTheme: settled (called before whenLoaded)"}

BarrierResolved == pc \in {"loaded", "ready"}

\* C16: resetTheme, called before or after the load barrier resolves, assigns
\* the default theme only once the barrier has resolved, and when its promise
\* settles colorTheme is the default theme; the hydration that resolves the
\* barrier runs before the barrier has resolved, which stays resolved, so it
\* cannot come after a reset.
C16_ResetThemeAfterLoad ==
  [][/\ lastOp' \in ThemeSettledOps
          => /\ BarrierResolved
             /\ preferences'.colorTheme = defaultTheme
     /\ lastOp' = "load: super.load" => ~BarrierResolved
     /\ BarrierResolved => BarrierResolved']_vars

\* a reset asked for before the barrier resolved, settled after it did
C16_Witness ==
  /\ lastOp = "resetTheme: settled (called before whenLoaded)"
  /\ preferences.colorTheme = defaultTheme
  /\ themeResets = <<>>

\* C17: the base load starts only from the state in which fileNameMigration
\* has resolved: never while the relocation is pending, never before load()
\* started it, and never after it rejected.
C17_RelocationBeforeBaseLoad ==
  [][/\ lastOp' = "load: super.load" => pc = "migrated"
     /\ pc' = "migrated" => (pc = "migrating" \/ pc = "migrated")
     /\ pc \in {"constructed", "migrating", "rejected"} => pc' # "loaded"]_vars

\* the base load has run, after the relocation
C17_Witness ==
  /\ lastOp = "load: super.load"
  /\ pc = "loaded"
  /\ lastRead.kind = "ok"

\* C18: saveLastSeenAppVersion publishes the app "whats-new-seen" event
\* exactly once, its subscribers finding lastSeenAppVersion not yet changed,
\* then sets lastSeenAppVersion to the running version; no other field of the
\* store changes, no read is initiated and no other side effect is made.
C18_EventThenVersion ==
  [][lastOp' = "saveLastSeenAppVersion"
       => /\ emitted' = <<[name |-> "app", action |-> "whats-new-seen"]>>
          /\ seenAtEmit' = lastSeenAppVersion
          /\ lastSeenAppVersion' = appVersion
          /\ UNCHANGED <<kubeConfigPath, seenContexts, newContexts, preferences>>
          /\ issued' = <<>>
          /\ loginItemSettings' = <<>>]_vars

\* a save that changed the version: the subscribers saw the older one
C18_Witness ==
  /\ lastOp = "saveLastSeenAppVersion"
  /\ lastSeenAppVersion = appVersion
  /\ seenAtEmit # appVersion
  /\ seenAtEmit # NothingSeen

\* C19: setHiddenTableColumns(tableId, names) makes the list of tableId the
\* supplied names in the supplied order and leaves the lists of the other
\* table ids and the other preferences as they were; getHiddenTableColumns of
\* that table id is then exactly the set of the supplied names, and the empty
\* set for a table id that has no list.
C19_SetReplacesOneList ==
  [][lastOp' = "setHiddenTableColumns"
       => LET tableId == hiddenArgs'.tableId
              names == hiddenArgs'.names
              columns == preferences'.hiddenTableColumns
          IN  /\ columns[tableId] = {names}
              /\ \A id \in TableIds \ {tableId} :
                   columns[id] = preferences.hiddenTableColumns[id]
              /\ preferences'.allowTelemetry = preferences.allowTelemetry
              /\ preferences'.colorTheme = preferences.colorTheme
              /\ preferences'.openAtLogin = preferences.openAtLogin
              /\ getHiddenTableColumns(columns, tableId)
                   = {names[i] : i \in 1..Len(names)}
              /\ \A id \in TableIds :
                   columns[id] = {} => getHiddenTableColumns(columns, id) = {}]_vars

\* two names set for one table in the order name, age, the other table never set
C19_Witness ==
  /\ lastOp = "setHiddenTableColumns"
  /\ hiddenArgs = [tableId |-> "pods", names |-> <<"name", "age">>]
  /\ preferences.hiddenTableColumns["pods"] = {<<"name", "age">>}
  /\ preferences.hiddenTableColumns["nodes"] = {}
  /\ preferences.colorTheme = "lens-light"

\* C20: toJSON holds exactly kubeConfigPath, lastSeenAppVersion, seenContexts
\* and preferences, each present, and not newContexts; fromStore given what
\* toJSON returned leaves those four fields and newContexts as they were, and
\* sets off no reaction.
C20_ToJSONRoundTrips ==
  [][/\ DOMAIN toJSON =
          {"kubeConfigPath", "lastSeenAppVersion", "seenContexts", "preferences"}
     /\ Has(toJSON.kubeConfigPath)
     /\ Has(toJSON.lastSeenAppVersion)
     /\ Has(toJSON.seenContexts)
     /\ (lastOp' = "fromStore" /\ lastData' = toJSON)
          => /\ UNCHANGED <<kubeConfigPath, lastSeenAppVersion, seenContexts,
                            preferences, newContexts>>
             /\ issued' = <<>>
             /\ emitted' = <<>>
             /\ loginItemSettings' = <<>>]_vars

\* a round trip of a store in which no field has its initial value
C20_Witness ==
  /\ lastOp = "fromStore"
  /\ lastData = toJSON
  /\ kubeConfigPath = "/alt/config"
  /\ lastSeenAppVersion = RunningVersion
  /\ seenContexts = {"a", "b"}
  /\ newContexts = {}
  /\ preferences.colorTheme = "lens-light"
  /\ preferences.hiddenTableColumns["pods"] = {<<"name", "age">>}

====
